---- MODULE Spec2Model ----
(***************************************************************************)
(* Users and Assets Lambda handlers (TypeScript implementation) over two   *)
(* DynamoDB tables and an S3 presigner.                                    *)
(*                                                                         *)
(* Every handler invocation is a process; its position (pc) moves from one *)
(* awaited SDK call to the next.  The code between two awaits runs without *)
(* interruption, so one action is one awaited call together with the code  *)
(* that follows it up to the next await or the return.  The tables are the *)
(* only state the invocations share.                                       *)
(***************************************************************************)
EXTENDS Integers, Sequences, FiniteSets, TLC

VARIABLES usersTable, assetsTable, now, req, faults, arrivals, limit

vars == <<usersTable, assetsTable, now, req, faults, arrivals, limit>>

(***************************************************************************)
(* Bounds of the model.  Init fixes in limit how many requests arrive and  *)
(* how many SDK calls throw in one behaviour.                              *)
(***************************************************************************)
MaxReq == 2        \* handler invocations held at the same time
MaxArrivals == 2   \* requests that arrive in one behaviour
MaxFaults == 1     \* SDK calls that throw a transient error in one behaviour
RaceArrivals == 3  \* requests that arrive in one behaviour of SpecRace
StoredArrivals == 2 \* requests that arrive in one behaviour of SpecStored
RetryArrivals == 1 \* requests that arrive in one behaviour of SpecRetry
RetryFaults == 3   \* SDK calls that throw in one behaviour of SpecRetry

Req == 1..MaxReq

(***************************************************************************)
(* Items, objects and identifiers.  An object is a function from its keys  *)
(* to their values; NoItem is the object without keys, standing for an     *)
(* undefined Item and for the body {}.                                     *)
(***************************************************************************)
NoItem == [a \in {} |-> 0]

UserIds == {"u1"}
AssetIds == {"a1"}

bucketName == "assets-bucket"

\* Variant of Truthy: only a missing key is falsy.
Truthy_present(obj, key) == key \in DOMAIN obj

\* JavaScript truthiness of body.key: a missing key and "" are both falsy.
Truthy(obj, key) == key \in DOMAIN obj /\ obj[key] # ""

\* { ...a, ...b }: the keys of both, b's value where both have the key.
Merge(a, b) == [k \in DOMAIN a \cup DOMAIN b |-> IF k \in DOMAIN b THEN b[k] ELSE a[k]]

(***************************************************************************)
(* Responses.                                                              *)
(***************************************************************************)
Response(status, body) == [statusCode |-> status, body |-> body]

NoResponse == Response(0, NoItem)

InternalServerError == Response(500, [error |-> "Internal server error"])

\* Variant of MethodNotAllowed: the text is under message.
MethodNotAllowed_message == Response(405, [message |-> "Method not allowed"])

MethodNotAllowed == Response(405, [error |-> "Method not allowed"])

(***************************************************************************)
(* Inbound events.                                                         *)
(***************************************************************************)
Event(h, m, id, action, body) ==
    [handler |-> h, method |-> m, id |-> id, action |-> action, body |-> body]

NoEvent == Event("", "", "", "", NoItem)

UserBodies ==
    { [userId |-> "u1", email |-> "a@b.com"],
      [userId |-> "u1", email |-> "c@d.com", department |-> "Sales"] }

UpdateBodies ==
    { [department |-> "X"],
      [userId |-> "u2", department |-> "Y"],
      [updatedAt |-> 0] }

UsersEvents ==
    { Event("users", "POST", "", "", b) : b \in UserBodies }
    \cup { Event("users", "PUT", id, "", b) : id \in UserIds, b \in UpdateBodies }
    \cup { Event("users", m, id, "", NoItem) : m \in {"GET", "DELETE"}, id \in UserIds }

AssetBodies ==
    { [assetId |-> "a1", fileName |-> "f.txt"],
      [assetId |-> "a1", fileName |-> "g.png", contentType |-> "image/png"] }

AssetsEvents ==
    { Event("assets", "POST", "", "", b) : b \in AssetBodies }
    \cup { Event("assets", "GET", id, a, NoItem) : id \in AssetIds, a \in {"", "download"} }

Events == UsersEvents \cup AssetsEvents

\* A body text JSON.parse throws on, held as the error it raises.  Every
\* other body is held as the object its text denotes; NoItem is also the
\* missing body, which the handlers read as {}.
Unparseable == [SyntaxError |-> "Unexpected end of JSON input"]

\* event.body ? JSON.parse(event.body) : {} returns an object.
Parses(text) == text # Unparseable

\* Create bodies without one of the required fields, or with an empty one.
InvalidUserBodies ==
    { NoItem,
      [email |-> "a@b.com"],
      [userId |-> "u1"],
      [userId |-> "", email |-> "a@b.com"],
      [userId |-> "u1", email |-> ""] }

InvalidAssetBodies ==
    { NoItem,
      [fileName |-> "f.txt"],
      [assetId |-> "a1"],
      [assetId |-> "", fileName |-> "f.txt"],
      [assetId |-> "a1", fileName |-> "", contentType |-> "image/png"] }

InvalidEvents ==
    { Event("users", "POST", "", "", b) : b \in InvalidUserBodies }
    \cup { Event("assets", "POST", "", "", b) : b \in InvalidAssetBodies }

\* Requests outside the seven routes: a collection path with an item
\* method, a method no route has, a create addressed to an item path, and
\* an item path with an action other than download.
OffRouteEvents ==
    { Event("users", m, "", "", NoItem) : m \in {"GET", "PUT", "DELETE", "PATCH"} }
    \cup { Event("users", "PATCH", id, "", [department |-> "X"]) : id \in UserIds }
    \cup { Event("users", "POST", id, "", [userId |-> "u1", email |-> "a@b.com"]) :
               id \in UserIds }
    \cup { Event("assets", m, id, "", NoItem) : m \in {"PUT", "DELETE", "PATCH"},
                                                 id \in AssetIds \cup {""} }
    \cup { Event("assets", "GET", "", "", NoItem) }
    \cup { Event("assets", "POST", id, "", [assetId |-> "a1", fileName |-> "f.txt"]) :
               id \in AssetIds }
    \cup { Event("assets", "GET", id, "thumbnail", NoItem) : id \in AssetIds }

\* Requests whose body is not JSON.
UnparseableEvents ==
    { Event("users", m, "", "", Unparseable) : m \in {"POST", "PATCH"} }
    \cup { Event("users", "PUT", id, "", Unparseable) : id \in UserIds }
    \cup { Event("assets", "POST", "", "", Unparseable) }

\* One refused request of each kind and handler, beside the routed ones.
RefusedEvents ==
    { Event("users", "POST", "", "", [email |-> "a@b.com"]),
      Event("users", "PATCH", "", "", NoItem),
      Event("assets", "POST", "", "", [assetId |-> "a1"]),
      Event("assets", "DELETE", "a1", "", NoItem) }

GatewayEvents == Events \cup InvalidEvents \cup OffRouteEvents \cup UnparseableEvents

(***************************************************************************)
(* Invocations.                                                            *)
(***************************************************************************)
Idle ==
    [pc |-> "idle", event |-> NoEvent, attempt |-> 0, item |-> NoItem,
     updateExpr |-> << >>, exprAttr |-> NoItem, resp |-> NoResponse,
     calls |-> << >>, waits |-> << >>, errs |-> 0, seq |-> 0, alone |-> FALSE]

Done(r) == req[r].pc = "done"

\* A request arrives and takes the first free slot.
Arrives(r) ==
    /\ arrivals < limit.arrivals
    /\ req[r].pc = "idle"
    /\ \A p \in Req : p < r => req[p].pc # "idle"
    /\ arrivals' = arrivals + 1

\* The invocation as it starts on event e: seq is its arrival number, and
\* alone tells that no other invocation was running when it arrived.
Start(e) ==
    [Idle EXCEPT !.event = e, !.seq = arrivals + 1,
                 !.alone = \A p \in Req : req[p].pc \in {"idle", "done", "thrown"}]

\* An exception leaves the handler: the invocation ends without a response.
Escapes(q) == [q EXCEPT !.pc = "thrown"]

\* The invocation returns the response; its local variables are gone.
Return(q, resp) ==
    [q EXCEPT !.pc = "done", !.resp = resp, !.attempt = 0, !.item = NoItem,
              !.updateExpr = << >>, !.exprAttr = NoItem]

\* An awaited SDK call has been issued: op is recorded, failed tells whether it threw.
Called(q, op, failed) ==
    [q EXCEPT !.calls = Append(@, op), !.errs = IF failed THEN @ + 1 ELSE @]

\* A transient failure of an SDK call may be injected while the budget lasts.
MayFail(failed) == failed => faults < limit.faults

Fault(failed) == faults' = IF failed THEN faults + 1 ELSE faults

Init ==
    /\ usersTable = [id \in UserIds |-> NoItem]
    /\ assetsTable = [id \in AssetIds |-> NoItem]
    /\ now = 1
    /\ req = [r \in Req |-> Idle]
    /\ faults = 0
    /\ arrivals = 0
    /\ limit = [arrivals |-> MaxArrivals, faults |-> MaxFaults]

\* The same start, with the limits of SpecRace.
InitRace ==
    /\ usersTable = [id \in UserIds |-> NoItem]
    /\ assetsTable = [id \in AssetIds |-> NoItem]
    /\ now = 1
    /\ req = [r \in Req |-> Idle]
    /\ faults = 0
    /\ arrivals = 0
    /\ limit = [arrivals |-> RaceArrivals, faults |-> 0]

\* The response of a returned invocation has been delivered; its slot is free.
Deliver(r) ==
    /\ Done(r)
    /\ req' = [req EXCEPT ![r] = Idle]
    /\ UNCHANGED <<usersTable, assetsTable, now, faults, arrivals, limit>>

\* Math.floor(Date.now() / 1000): a reading of the clock is the last
\* reading or a later second.  Only the order of the readings matters, so
\* a later reading is the next second.
Clock == {now, now + 1}

(***************************************************************************)
(* The store (DynamoDB document client) as the handlers use it.            *)
(***************************************************************************)
\* Variant of Found: the test never sees the item.
Found_never(Item) == FALSE

\* Variant of Found: the test is left out.
Found_always(Item) == TRUE

\* if (existing.Item), if (!response.Item): the read returned an item.
Found(Item) == Item # NoItem

\* Variant of GetItem: the read returns no item.
GetItem_none(table, id) == NoItem

\* GetCommand: response.Item, undefined (NoItem) when the key has no item.
GetItem(table, id) == table[id]

\* Variant of AttributeNotExists: the write carries no condition.
AttributeNotExists_unconditional(table, id) == TRUE

\* ConditionExpression attribute_not_exists(<key>): no item holds the key.
AttributeNotExists(table, id) == table[id] = NoItem

\* PutCommand: the item replaces whatever the key held.
PutItem(table, id, item) == [table EXCEPT ![id] = item]

\* Variant of UpdateItem: the item is replaced by the attributes set.
UpdateItem_replace(table, id, keyName, expr, attr) ==
    [table EXCEPT ![id] = Merge([k \in {keyName} |-> id],
                                [k \in {expr[i] : i \in DOMAIN expr} |-> attr[k]])]

\* UpdateCommand, SET clauses only: the item is created when the key has
\* none; each named attribute takes its value; ALL_NEW is the item after.
UpdateItem(table, id, keyName, expr, attr) ==
    LET old == Merge(table[id], [k \in {keyName} |-> id])
        sets == [k \in {expr[i] : i \in DOMAIN expr} |-> attr[k]]
    IN  [table EXCEPT ![id] = Merge(old, sets)]

\* The reserved words of the store among the attribute names in use.
ReservedWords == {"name", "ttl", "status"}

\* An UpdateExpression that names one attribute path twice is rejected
\* (ValidationException: two document paths overlap), and so is one that
\* names an attribute by a reserved word: updateUser writes the keys of
\* the body into the expression as they are, without
\* ExpressionAttributeNames.
ValidUpdateExpression(expr) ==
    /\ \A i, j \in DOMAIN expr : expr[i] = expr[j] => i = j
    /\ \A i \in DOMAIN expr : expr[i] \notin ReservedWords

\* Variant of DeleteItem: every item of the table is removed.
DeleteItem_all(table, id) == [k \in DOMAIN table |-> NoItem]

\* Variant of DeleteItem: the item is kept.
DeleteItem_kept(table, id) == table

\* DeleteCommand: unconditional.
DeleteItem(table, id) == [table EXCEPT ![id] = NoItem]

(***************************************************************************)
(* Users handler.                                                          *)
(***************************************************************************)
\* Variant of retries: one attempt more.
retries_four == 3 + 1

retries == 3

backoff == 100

RECURSIVE Pow(_, _)
Pow(b, n) == IF n = 0 THEN 1 ELSE b * Pow(b, n - 1)

\* Variant of sleep: the delay does not grow.
sleep_constant(attempt) == backoff

\* The argument of sleep() in getUser's catch block.
sleep(attempt) == backoff * Pow(2, attempt)

\* Variant of UserTtl: ninety days counted in minutes.
UserTtl_minutes == 90 * 24 * 60

UserTtl == 90 * 24 * 60 * 60

\* Variant of Throw: the invocation stays where it is and sends the call again.
Throw_again(q) == q

\* An error propagates to the handler's catch block.
Throw(q) == Return(q, InternalServerError)

\* The keys of an object as Object.entries lists them (one fixed order).
RECURSIVE Entries(_)
Entries(ks) ==
    IF ks = {} THEN << >>
    ELSE LET k == CHOOSE x \in ks : TRUE IN <<k>> \o Entries(ks \ {k})

\* Variant of UserItem: the payload is spread into the item.
UserItem_spread(body, t) ==
    Merge(body, [createdAt |-> t, ttl |-> t + UserTtl])

\* The item createUser builds at clock reading t.
UserItem(body, t) ==
    Merge(Merge([userId |-> body.userId, email |-> body.email,
                 createdAt |-> t, ttl |-> t + UserTtl],
                IF Truthy(body, "name") THEN [name |-> body.name] ELSE NoItem),
          IF Truthy(body, "department") THEN [department |-> body.department] ELSE NoItem)

\* Variant of UpdateKeys: the loop does not skip userId.
UpdateKeys_all(body) == DOMAIN body

\* The keys updateUser's loop puts into the update expression.
UpdateKeys(body) == DOMAIN body \ {"userId"}

\* updateExpr as the list of the attributes it sets.
UpdateExpr(body) == <<"updatedAt">> \o Entries(UpdateKeys(body))

\* exprAttr: the clock reading under :updatedAt, then one entry per key of
\* the loop (a body key updatedAt takes the place of the clock reading).
ExprAttr(body, t) == Merge([updatedAt |-> t], [k \in UpdateKeys(body) |-> body[k]])

\* createUser up to its first await: the validation of the body.
createUser(q, body) ==
    IF ~Truthy(body, "userId") \/ ~Truthy(body, "email")
    THEN Return(q, Response(400, [error |-> "userId and email are required"]))
    ELSE [q EXCEPT !.pc = "createUser_get"]

\* The switch of the users handler.
usersSwitch(q, e) ==
    CASE e.method = "GET" /\ e.id # "" -> [q EXCEPT !.pc = "getUser"]
      [] e.method = "POST" -> createUser(q, e.body)
      [] e.method = "PUT" /\ e.id # "" -> [q EXCEPT !.pc = "updateUser_get"]
      [] e.method = "DELETE" /\ e.id # "" -> [q EXCEPT !.pc = "deleteUser"]
      [] OTHER -> Return(q, MethodNotAllowed)

\* A request arrives at the users handler.  Invocations are numbered in
\* the order of their arrival.
usersHandler(r, e) ==
    /\ Arrives(r)
    /\ e.handler = "users"
    /\ req' = [req EXCEPT ![r] = IF Parses(e.body) THEN usersSwitch(Start(e), e)
                                  ELSE Escapes(Start(e))]
    /\ UNCHANGED <<usersTable, assetsTable, now, faults, limit>>

\* Variant of getUser: the read removes the item it returns.
getUser_remove(r) ==
    /\ req[r].pc = "getUser"
    /\ Fault(FALSE)
    /\ LET q == Called(req[r], "Get", FALSE)
           Item == GetItem(usersTable, q.event.id)
       IN  /\ req' = [req EXCEPT ![r] =
                 IF ~Found(Item)
                 THEN Return(q, Response(404, [error |-> "User not found"]))
                 ELSE Return(q, Response(200, Item))]
           /\ usersTable' = [usersTable EXCEPT ![q.event.id] = NoItem]
    /\ UNCHANGED <<assetsTable, now, arrivals, limit>>

\* One iteration of getUser's loop: the read, and the catch block.
getUser(r) ==
    /\ req[r].pc = "getUser"
    /\ \E failed \in BOOLEAN :
         /\ MayFail(failed)
         /\ Fault(failed)
         /\ LET q == Called(req[r], "Get", failed)
                Item == GetItem(usersTable, q.event.id)
            IN  req' = [req EXCEPT ![r] =
                  IF ~failed
                  THEN IF ~Found(Item)
                       THEN Return(q, Response(404, [error |-> "User not found"]))
                       ELSE Return(q, Response(200, Item))
                  ELSE IF q.attempt < retries - 1
                       THEN IF q.attempt + 1 < retries
                            THEN [q EXCEPT !.waits = Append(@, sleep(q.attempt)),
                                           !.attempt = @ + 1]
                            ELSE Return([q EXCEPT !.waits = Append(@, sleep(q.attempt))],
                                        Response(500, [error |-> "Failed to get user"]))
                       ELSE Throw(q)]
    /\ UNCHANGED <<usersTable, assetsTable, now, arrivals, limit>>

\* createUser: the existence check and, when nothing is found, the item.
createUser_get(r) ==
    /\ req[r].pc = "createUser_get"
    /\ \E failed \in BOOLEAN :
         /\ MayFail(failed)
         /\ Fault(failed)
         /\ LET q == Called(req[r], "Get", failed)
                body == q.event.body
                existing == GetItem(usersTable, body.userId)
            IN  IF failed \/ Found(existing)
                THEN /\ req' = [req EXCEPT ![r] =
                          IF failed THEN Throw(q)
                          ELSE Return(q, Response(200, [message |-> "User already exists",
                                                        user |-> existing]))]
                     /\ now' = now
                ELSE \E t \in Clock :
                     /\ now' = t
                     /\ req' = [req EXCEPT ![r] =
                          [q EXCEPT !.pc = "createUser_put", !.item = UserItem(body, t)]]
    /\ UNCHANGED <<usersTable, assetsTable, arrivals, limit>>

\* createUser: the conditional write.
createUser_put(r) ==
    /\ req[r].pc = "createUser_put"
    /\ \E failed \in BOOLEAN :
         /\ MayFail(failed)
         /\ Fault(failed)
         /\ LET q == Called(req[r], "Put", failed)
                userId == q.event.body.userId
                accepted == ~failed /\ AttributeNotExists(usersTable, userId)
            IN  /\ usersTable' = IF accepted
                                 THEN PutItem(usersTable, userId, q.item)
                                 ELSE usersTable
                /\ req' = [req EXCEPT ![r] =
                     IF failed THEN Throw(q)
                     ELSE IF accepted
                     THEN Return(q, Response(201, [message |-> "User created",
                                                   user |-> q.item]))
                     ELSE [q EXCEPT !.pc = "createUser_reget"]]
    /\ UNCHANGED <<assetsTable, now, arrivals, limit>>

\* createUser: the catch block after ConditionalCheckFailedException.
createUser_reget(r) ==
    /\ req[r].pc = "createUser_reget"
    /\ \E failed \in BOOLEAN :
         /\ MayFail(failed)
         /\ Fault(failed)
         /\ LET q == Called(req[r], "Get", failed)
                existing == GetItem(usersTable, q.event.body.userId)
            IN  req' = [req EXCEPT ![r] =
                  IF ~failed /\ Found(existing)
                  THEN Return(q, Response(200, [message |-> "User already exists",
                                                user |-> existing]))
                  ELSE Throw(q)]
    /\ UNCHANGED <<usersTable, assetsTable, now, arrivals, limit>>

\* updateUser: the pre-read and, when the item exists, the update expression.
updateUser_get(r) ==
    /\ req[r].pc = "updateUser_get"
    /\ \E failed \in BOOLEAN :
         /\ MayFail(failed)
         /\ Fault(failed)
         /\ LET q == Called(req[r], "Get", failed)
                body == q.event.body
                existing == GetItem(usersTable, q.event.id)
            IN  IF failed \/ ~Found(existing)
                THEN /\ req' = [req EXCEPT ![r] =
                          IF failed THEN Throw(q)
                          ELSE Return(q, Response(404, [error |-> "User not found"]))]
                     /\ now' = now
                ELSE \E t \in Clock :
                     /\ now' = t
                     /\ req' = [req EXCEPT ![r] =
                          [q EXCEPT !.pc = "updateUser_update",
                                    !.item = existing,
                                    !.updateExpr = UpdateExpr(body),
                                    !.exprAttr = ExprAttr(body, t)]]
    /\ UNCHANGED <<usersTable, assetsTable, arrivals, limit>>

\* updateUser: the UpdateCommand.
updateUser_update(r) ==
    /\ req[r].pc = "updateUser_update"
    /\ \E failed \in BOOLEAN :
         /\ MayFail(failed)
         /\ Fault(failed)
         /\ LET q == Called(req[r], "Update", failed)
                userId == q.event.id
                accepted == ~failed /\ ValidUpdateExpression(q.updateExpr)
                updated == UpdateItem(usersTable, userId, "userId", q.updateExpr, q.exprAttr)
            IN  /\ usersTable' = IF accepted THEN updated ELSE usersTable
                /\ req' = [req EXCEPT ![r] =
                     IF accepted THEN Return(q, Response(200, updated[userId]))
                     ELSE Throw(q)]
    /\ UNCHANGED <<assetsTable, now, arrivals, limit>>

\* deleteUser: the DeleteCommand.
deleteUser(r) ==
    /\ req[r].pc = "deleteUser"
    /\ \E failed \in BOOLEAN :
         /\ MayFail(failed)
         /\ Fault(failed)
         /\ LET q == Called(req[r], "Delete", failed)
                userId == q.event.id
            IN  /\ usersTable' = IF failed THEN usersTable
                                 ELSE DeleteItem(usersTable, userId)
                /\ req' = [req EXCEPT ![r] =
                     IF failed THEN Throw(q)
                     ELSE Return(q, Response(200, [message |-> "User deleted successfully"]))]
    /\ UNCHANGED <<assetsTable, now, arrivals, limit>>

(***************************************************************************)
(* Assets handler.                                                         *)
(***************************************************************************)
AssetTtl == 30 * 24 * 60 * 60

expiresIn == 3600

\* Variant of s3Key: the identifier is left out of the key.
s3Key_flat(assetId, fileName) == <<"assets", fileName>>

\* The template string `assets/${assetId}/${fileName}`.
s3Key(assetId, fileName) == <<"assets", assetId, fileName>>

\* getSignedUrl over a PutObjectCommand or a GetObjectCommand.
getSignedUrl(command) == [command |-> command, expiresIn |-> expiresIn]

PutObjectCommand(bucket, key, contentType) ==
    [op |-> "PutObject", Bucket |-> bucket, Key |-> key, ContentType |-> contentType]

\* Variant of GetObjectCommand: the key is the prefix alone.
GetObjectCommand_prefix(bucket, key) ==
    [op |-> "GetObject", Bucket |-> bucket, Key |-> <<"assets">>]

GetObjectCommand(bucket, key) ==
    [op |-> "GetObject", Bucket |-> bucket, Key |-> key]

\* The item uploadAsset builds at clock reading t.
AssetItem(body, t) ==
    [assetId |-> body.assetId, fileName |-> body.fileName,
     contentType |-> IF Truthy(body, "contentType") THEN body.contentType
                     ELSE "application/octet-stream",
     s3Key |-> s3Key(body.assetId, body.fileName),
     s3Bucket |-> bucketName, status |-> "pending",
     createdAt |-> t, ttl |-> t + AssetTtl]

\* uploadAsset up to its first await: the validation of the body.
uploadAsset(q, body) ==
    IF ~Truthy(body, "assetId") \/ ~Truthy(body, "fileName")
    THEN Return(q, Response(400, [error |-> "assetId and fileName are required"]))
    ELSE [q EXCEPT !.pc = "uploadAsset_get"]

\* The switch of the assets handler.
assetsSwitch(q, e) ==
    CASE e.method = "POST" -> uploadAsset(q, e.body)
      [] e.method = "GET" /\ e.id # "" /\ e.action = "download" ->
            [q EXCEPT !.pc = "getDownloadUrl_get"]
      [] e.method = "GET" /\ e.id # "" /\ e.action # "download" ->
            [q EXCEPT !.pc = "getAsset"]
      [] OTHER -> Return(q, MethodNotAllowed)

\* A request arrives at the assets handler.
assetsHandler(r, e) ==
    /\ Arrives(r)
    /\ e.handler = "assets"
    /\ req' = [req EXCEPT ![r] = IF Parses(e.body) THEN assetsSwitch(Start(e), e)
                                  ELSE Escapes(Start(e))]
    /\ UNCHANGED <<usersTable, assetsTable, now, faults, limit>>

\* uploadAsset: the existence check and, when nothing is found, the item.
uploadAsset_get(r) ==
    /\ req[r].pc = "uploadAsset_get"
    /\ \E failed \in BOOLEAN :
         /\ MayFail(failed)
         /\ Fault(failed)
         /\ LET q == Called(req[r], "Get", failed)
                body == q.event.body
                existing == GetItem(assetsTable, body.assetId)
            IN  IF failed \/ Found(existing)
                THEN /\ req' = [req EXCEPT ![r] =
                          IF failed THEN Throw(q)
                          ELSE Return(q, Response(200, [message |-> "Asset already exists",
                                                        asset |-> existing]))]
                     /\ now' = now
                ELSE \E t \in Clock :
                     /\ now' = t
                     /\ req' = [req EXCEPT ![r] =
                          [q EXCEPT !.pc = "uploadAsset_put", !.item = AssetItem(body, t)]]
    /\ UNCHANGED <<usersTable, assetsTable, arrivals, limit>>

\* uploadAsset: the conditional write.
uploadAsset_put(r) ==
    /\ req[r].pc = "uploadAsset_put"
    /\ \E failed \in BOOLEAN :
         /\ MayFail(failed)
         /\ Fault(failed)
         /\ LET q == Called(req[r], "Put", failed)
                assetId == q.event.body.assetId
                accepted == ~failed /\ AttributeNotExists(assetsTable, assetId)
            IN  /\ assetsTable' = IF accepted
                                  THEN PutItem(assetsTable, assetId, q.item)
                                  ELSE assetsTable
                /\ req' = [req EXCEPT ![r] =
                     IF failed THEN Throw(q)
                     ELSE IF accepted
                     THEN [q EXCEPT !.pc = "uploadAsset_sign"]
                     ELSE [q EXCEPT !.pc = "uploadAsset_reget"]]
    /\ UNCHANGED <<usersTable, now, arrivals, limit>>

\* uploadAsset: the presigned upload URL and the 201 response.
uploadAsset_sign(r) ==
    /\ req[r].pc = "uploadAsset_sign"
    /\ \E failed \in BOOLEAN :
         /\ MayFail(failed)
         /\ Fault(failed)
         /\ LET q == Called(req[r], "Sign", failed)
                uploadUrl == getSignedUrl(PutObjectCommand(bucketName, q.item.s3Key,
                                                           q.item.contentType))
            IN  req' = [req EXCEPT ![r] =
                  IF failed THEN Throw(q)
                  ELSE Return(q, Response(201, [message |-> "Asset metadata created",
                                                asset |-> q.item,
                                                uploadUrl |-> uploadUrl]))]
    /\ UNCHANGED <<usersTable, assetsTable, now, arrivals, limit>>

\* uploadAsset: the catch block after ConditionalCheckFailedException.
uploadAsset_reget(r) ==
    /\ req[r].pc = "uploadAsset_reget"
    /\ \E failed \in BOOLEAN :
         /\ MayFail(failed)
         /\ Fault(failed)
         /\ LET q == Called(req[r], "Get", failed)
                existing == GetItem(assetsTable, q.event.body.assetId)
            IN  req' = [req EXCEPT ![r] =
                  IF ~failed /\ Found(existing)
                  THEN Return(q, Response(200, [message |-> "Asset already exists",
                                                asset |-> existing]))
                  ELSE Throw(q)]
    /\ UNCHANGED <<usersTable, assetsTable, now, arrivals, limit>>

\* getAsset: one read, no loop.
getAsset(r) ==
    /\ req[r].pc = "getAsset"
    /\ \E failed \in BOOLEAN :
         /\ MayFail(failed)
         /\ Fault(failed)
         /\ LET q == Called(req[r], "Get", failed)
                Item == GetItem(assetsTable, q.event.id)
            IN  req' = [req EXCEPT ![r] =
                  IF failed THEN Throw(q)
                  ELSE IF ~Found(Item)
                  THEN Return(q, Response(404, [error |-> "Asset not found"]))
                  ELSE Return(q, Response(200, Item))]
    /\ UNCHANGED <<usersTable, assetsTable, now, arrivals, limit>>

\* getDownloadUrl: the read of the asset.
getDownloadUrl_get(r) ==
    /\ req[r].pc = "getDownloadUrl_get"
    /\ \E failed \in BOOLEAN :
         /\ MayFail(failed)
         /\ Fault(failed)
         /\ LET q == Called(req[r], "Get", failed)
                Item == GetItem(assetsTable, q.event.id)
            IN  req' = [req EXCEPT ![r] =
                  IF failed THEN Throw(q)
                  ELSE IF ~Found(Item)
                  THEN Return(q, Response(404, [error |-> "Asset not found"]))
                  ELSE [q EXCEPT !.pc = "getDownloadUrl_sign", !.item = Item]]
    /\ UNCHANGED <<usersTable, assetsTable, now, arrivals, limit>>

\* getDownloadUrl: the presigned download URL and the 200 response.
getDownloadUrl_sign(r) ==
    /\ req[r].pc = "getDownloadUrl_sign"
    /\ \E failed \in BOOLEAN :
         /\ MayFail(failed)
         /\ Fault(failed)
         /\ LET q == Called(req[r], "Sign", failed)
                item == q.item
                downloadUrl == getSignedUrl(GetObjectCommand(item.s3Bucket, item.s3Key))
            IN  req' = [req EXCEPT ![r] =
                  IF failed THEN Throw(q)
                  ELSE Return(q, Response(200, [downloadUrl |-> downloadUrl,
                                                fileName |-> item.fileName,
                                                contentType |-> item.contentType]))]
    /\ UNCHANGED <<usersTable, assetsTable, now, arrivals, limit>>

Next ==
    \/ \E r \in Req, e \in Events \cup RefusedEvents : usersHandler(r, e)
    \/ \E r \in Req : getUser(r)
    \/ \E r \in Req : createUser_get(r)
    \/ \E r \in Req : createUser_put(r)
    \/ \E r \in Req : createUser_reget(r)
    \/ \E r \in Req : updateUser_get(r)
    \/ \E r \in Req : updateUser_update(r)
    \/ \E r \in Req : deleteUser(r)
    \/ \E r \in Req, e \in Events \cup RefusedEvents : assetsHandler(r, e)
    \/ \E r \in Req : uploadAsset_get(r)
    \/ \E r \in Req : uploadAsset_put(r)
    \/ \E r \in Req : uploadAsset_sign(r)
    \/ \E r \in Req : uploadAsset_reget(r)
    \/ \E r \in Req : getAsset(r)
    \/ \E r \in Req : getDownloadUrl_get(r)
    \/ \E r \in Req : getDownloadUrl_sign(r)

Spec == Init /\ [][Next]_vars

(***************************************************************************)
(* Read requests against tables that hold nothing or a record an earlier   *)
(* create stored, over a store whose calls may fail.                       *)
(***************************************************************************)
ReadEvents == {e \in Events : e.method = "GET"}

StoredUsers == {UserItem(b, 1) : b \in UserBodies}

StoredAssets == {AssetItem(b, 1) : b \in AssetBodies}

InitRetry ==
    /\ usersTable \in [UserIds -> {NoItem} \cup StoredUsers]
    /\ assetsTable \in [AssetIds -> {NoItem} \cup StoredAssets]
    /\ now = 1
    /\ req = [r \in Req |-> Idle]
    /\ faults = 0
    /\ arrivals = 0
    /\ limit = [arrivals |-> RetryArrivals, faults |-> RetryFaults]

NextRetry ==
    \/ \E r \in Req, e \in ReadEvents : usersHandler(r, e)
    \/ \E r \in Req : getUser(r)
    \/ \E r \in Req, e \in ReadEvents : assetsHandler(r, e)
    \/ \E r \in Req : getAsset(r)
    \/ \E r \in Req : getDownloadUrl_get(r)
    \/ \E r \in Req : getDownloadUrl_sign(r)

SpecRetry == InitRetry /\ [][NextRetry]_vars

(***************************************************************************)
(* Reads, updates and deletes of a user an earlier create stored.          *)
(***************************************************************************)
\* Update bodies that name fields a create has set: the body of the API
\* reference's example, and bodies with the creation time and the expiry.
StoredUpdateBodies ==
    { [name |-> "Jane Doe", department |-> "Marketing"],
      [createdAt |-> 0],
      [ttl |-> 0] }

StoredEvents ==
    {e \in UsersEvents : e.method \in {"GET", "PUT", "DELETE"}}
    \cup { Event("users", "PUT", id, "", b) : id \in UserIds, b \in StoredUpdateBodies }

InitStored ==
    /\ usersTable \in [UserIds -> StoredUsers]
    /\ assetsTable = [id \in AssetIds |-> NoItem]
    /\ now = 1
    /\ req = [r \in Req |-> Idle]
    /\ faults = 0
    /\ arrivals = 0
    /\ limit = [arrivals |-> StoredArrivals, faults |-> MaxFaults]

NextStored ==
    \/ \E r \in Req, e \in StoredEvents : usersHandler(r, e)
    \/ \E r \in Req : getUser(r)
    \/ \E r \in Req : updateUser_get(r)
    \/ \E r \in Req : updateUser_update(r)
    \/ \E r \in Req : deleteUser(r)

SpecStored == InitStored /\ [][NextStored]_vars

(***************************************************************************)
(* Three requests over a store that does not fail.  More requests arrive   *)
(* than invocations are held: a returned invocation makes room for the     *)
(* next request.                                                           *)
(***************************************************************************)
NextRace ==
    \/ Next
    \/ \E r \in Req : Deliver(r)

SpecRace == InitRace /\ [][NextRace]_vars

(***************************************************************************)
(* Requests of every kind, those the handlers refuse included, over a      *)
(* store that does not fail.                                               *)
(***************************************************************************)
InitGateway ==
    /\ usersTable = [id \in UserIds |-> NoItem]
    /\ assetsTable = [id \in AssetIds |-> NoItem]
    /\ now = 1
    /\ req = [r \in Req |-> Idle]
    /\ faults = 0
    /\ arrivals = 0
    /\ limit = [arrivals |-> MaxArrivals, faults |-> 0]

NextGateway ==
    \/ \E r \in Req, e \in GatewayEvents : usersHandler(r, e)
    \/ \E r \in Req : getUser(r)
    \/ \E r \in Req : createUser_get(r)
    \/ \E r \in Req : createUser_put(r)
    \/ \E r \in Req : createUser_reget(r)
    \/ \E r \in Req : updateUser_get(r)
    \/ \E r \in Req : updateUser_update(r)
    \/ \E r \in Req : deleteUser(r)
    \/ \E r \in Req, e \in GatewayEvents : assetsHandler(r, e)
    \/ \E r \in Req : uploadAsset_get(r)
    \/ \E r \in Req : uploadAsset_put(r)
    \/ \E r \in Req : uploadAsset_sign(r)
    \/ \E r \in Req : uploadAsset_reget(r)
    \/ \E r \in Req : getAsset(r)
    \/ \E r \in Req : getDownloadUrl_get(r)
    \/ \E r \in Req : getDownloadUrl_sign(r)

SpecGateway == InitGateway /\ [][NextGateway]_vars

(***************************************************************************)
(* Creates with and without the existence check, side by side, from every  *)
(* content of the tables, over a store that does not fail.  The create     *)
(* without the check is createUser, or uploadAsset, from the validation    *)
(* straight to the item and the conditional write, the catch block as it   *)
(* is.                                                                     *)
(***************************************************************************)
CreateEvents == {e \in Events : e.method = "POST"}

\* A create arrives at the users handler and skips the existence check.
createUser_direct(r, e) ==
    /\ Arrives(r)
    /\ e.handler = "users" /\ e.method = "POST"
    /\ Parses(e.body)
    /\ LET q == createUser(Start(e), e.body)
       IN  IF q.pc = "done"
           THEN req' = [req EXCEPT ![r] = q] /\ now' = now
           ELSE \E t \in Clock :
                /\ now' = t
                /\ req' = [req EXCEPT ![r] =
                     [q EXCEPT !.pc = "createUser_put", !.item = UserItem(e.body, t)]]
    /\ UNCHANGED <<usersTable, assetsTable, faults, limit>>

\* A create arrives at the assets handler and skips the existence check.
uploadAsset_direct(r, e) ==
    /\ Arrives(r)
    /\ e.handler = "assets" /\ e.method = "POST"
    /\ Parses(e.body)
    /\ LET q == uploadAsset(Start(e), e.body)
       IN  IF q.pc = "done"
           THEN req' = [req EXCEPT ![r] = q] /\ now' = now
           ELSE \E t \in Clock :
                /\ now' = t
                /\ req' = [req EXCEPT ![r] =
                     [q EXCEPT !.pc = "uploadAsset_put", !.item = AssetItem(e.body, t)]]
    /\ UNCHANGED <<usersTable, assetsTable, faults, limit>>

InitDirect ==
    /\ usersTable \in [UserIds -> {NoItem} \cup StoredUsers]
    /\ assetsTable \in [AssetIds -> {NoItem} \cup StoredAssets]
    /\ now = 1
    /\ req = [r \in Req |-> Idle]
    /\ faults = 0
    /\ arrivals = 0
    /\ limit = [arrivals |-> MaxArrivals, faults |-> 0]

NextDirect ==
    \/ \E r \in Req, e \in CreateEvents : usersHandler(r, e)
    \/ \E r \in Req, e \in CreateEvents : createUser_direct(r, e)
    \/ \E r \in Req : createUser_get(r)
    \/ \E r \in Req : createUser_put(r)
    \/ \E r \in Req : createUser_reget(r)
    \/ \E r \in Req, e \in CreateEvents : assetsHandler(r, e)
    \/ \E r \in Req, e \in CreateEvents : uploadAsset_direct(r, e)
    \/ \E r \in Req : uploadAsset_get(r)
    \/ \E r \in Req : uploadAsset_put(r)
    \/ \E r \in Req : uploadAsset_sign(r)
    \/ \E r \in Req : uploadAsset_reget(r)

SpecDirect == InitDirect /\ [][NextDirect]_vars

(***************************************************************************)
(* Vocabulary of the properties.                                           *)
(***************************************************************************)
\* The invocations that have arrived and whose response is not yet delivered.
Held == {r \in Req : req[r].pc # "idle"}

\* q is a create request that passed validation.
IsCreate(q) ==
    /\ q.event.method = "POST"
    /\ q.pc # "idle"
    /\ IF q.event.handler = "users"
       THEN Truthy(q.event.body, "userId") /\ Truthy(q.event.body, "email")
       ELSE Truthy(q.event.body, "assetId") /\ Truthy(q.event.body, "fileName")

\* The identifier a create request carries.
CreateId(q) ==
    IF q.event.handler = "users" THEN q.event.body.userId ELSE q.event.body.assetId

\* The item the table of q's handler holds for identifier id.
Stored(q, id) ==
    IF q.event.handler = "users" THEN usersTable[id] ELSE assetsTable[id]

\* The record a create response carries.
Returned(q) ==
    IF q.event.handler = "users" THEN q.resp.body.user ELSE q.resp.body.asset

\* Creates only, all held, all returned, no SDK call failed.
OnlyCreatesAllDone ==
    /\ Held # {}
    /\ arrivals = Cardinality(Held)
    /\ faults = 0
    /\ \A r \in Held : Done(r) /\ IsCreate(req[r])
    /\ \A r1, r2 \in Held : /\ req[r1].event.handler = req[r2].event.handler
                            /\ CreateId(req[r1]) = CreateId(req[r2])

(***************************************************************************)
(* C1: when N creates with the same identifier, against a table without a  *)
(* record for it and with nothing else running, have all returned, under   *)
(* any interleaving, the table holds a record for the identifier, exactly  *)
(* one caller got 201 and every other caller got 200.                      *)
(***************************************************************************)
C1_ExactlyOneCreated ==
    OnlyCreatesAllDone =>
        /\ \A r \in Held : Stored(req[r], CreateId(req[r])) # NoItem
        /\ Cardinality({r \in Held : req[r].resp.statusCode = 201}) = 1
        /\ \A r \in Held : req[r].resp.statusCode \in {200, 201}

\* Two creates raced: one of them lost the conditional write and re-read.
C1_Witness ==
    /\ OnlyCreatesAllDone
    /\ Cardinality(Held) = 2
    /\ \E r \in Held : req[r].calls = <<"Get", "Put", "Get">>

(***************************************************************************)
(* C2: two creates with the same identifier and an equal payload, the      *)
(* second called after the first returned and nothing else called: the     *)
(* first answers 201, the second 200 with the record the first stored      *)
(* (same createdAt), and the table holds that record.                      *)
(***************************************************************************)
TwoCreatesInSequence(r1, r2) ==
    /\ arrivals = 2
    /\ faults = 0
    /\ Done(r1) /\ Done(r2)
    /\ IsCreate(req[r1]) /\ IsCreate(req[r2])
    /\ req[r1].event = req[r2].event
    /\ req[r1].seq = 1 /\ req[r2].seq = 2
    /\ req[r2].alone

C2_CreateIdempotent ==
    \A r1, r2 \in Req :
        TwoCreatesInSequence(r1, r2) =>
            /\ req[r1].resp.statusCode = 201
            /\ req[r2].resp.statusCode = 200
            /\ Returned(req[r2]) = Returned(req[r1])
            /\ Returned(req[r2]).createdAt = Returned(req[r1]).createdAt
            /\ Stored(req[r1], CreateId(req[r1])) = Returned(req[r1])

\* The second create found the record of the first.
C2_Witness ==
    \E r1, r2 \in Req :
        /\ TwoCreatesInSequence(r1, r2)
        /\ req[r1].calls = <<"Get", "Put">>
        /\ req[r2].calls = <<"Get">>

(***************************************************************************)
(* C3: a step of a create request never changes a record that exists, in   *)
(* either table, and the conditional write of a create is accepted only    *)
(* when the table holds no record for the identifier.                      *)
(***************************************************************************)
CreateStep(r) ==
    /\ IsCreate(req[r])
    /\ req[r].pc \notin {"idle", "done"}
    /\ req'[r] # req[r]

C3_CreateNeverOverwrites ==
    [][\A r \in Req :
         CreateStep(r) =>
            /\ \A id \in UserIds :
                 usersTable[id] # NoItem => usersTable'[id] = usersTable[id]
            /\ \A id \in AssetIds :
                 assetsTable[id] # NoItem => assetsTable'[id] = assetsTable[id]
            /\ req[r].pc \in {"createUser_put", "uploadAsset_put"}
               /\ req'[r].pc \in {"done", "uploadAsset_sign"}
               /\ req'[r].resp.statusCode # 500
               => Stored(req[r], CreateId(req[r])) = NoItem]_vars

\* A create lost its conditional write to a record that exists.
C3_Witness ==
    \E r \in Req :
        /\ req[r].pc \in {"createUser_reget", "uploadAsset_reget"}
        /\ Stored(req[r], CreateId(req[r])) # NoItem

(***************************************************************************)
(* C4: a create whose conditional write was rejected, and none of whose    *)
(* SDK calls failed, is answered 200 with the existing record, whatever    *)
(* creates, updates and deletes run beside it.                             *)
(***************************************************************************)
C4_LostWriteNeverSurfaced ==
    \A r \in Req :
        /\ Done(r)
        /\ IsCreate(req[r])
        /\ req[r].errs = 0
        /\ req[r].calls = <<"Get", "Put", "Get">>
        => /\ req[r].resp.statusCode = 200
           /\ Returned(req[r]) # NoItem

(***************************************************************************)
(* C5: a GET /users/{id} whose read throws exactly twice and then succeeds *)
(* returns what the third read found (200 with the item, or 404), after    *)
(* exactly three reads, having slept 100 ms and then 200 ms.               *)
(***************************************************************************)
IsGetUser(q) == q.event.handler = "users" /\ q.event.method = "GET" /\ q.event.id # ""

C5_TwoFailuresThenSuccess ==
    [][\A r \in Req :
         /\ req[r].pc = "getUser"
         /\ req'[r].pc = "done"
         /\ req'[r].errs = 2
         => /\ req'[r].resp =
                 IF usersTable[req[r].event.id] = NoItem
                 THEN [statusCode |-> 404, body |-> [error |-> "User not found"]]
                 ELSE [statusCode |-> 200, body |-> usersTable[req[r].event.id]]
            /\ req'[r].calls = <<"Get", "Get", "Get">>
            /\ req'[r].waits = <<100, 200>>]_vars

\* A GET returned the record after two failed reads.
C5_Witness ==
    \E r \in Req :
        /\ Done(r)
        /\ IsGetUser(req[r])
        /\ req[r].errs = 2
        /\ req[r].resp.statusCode = 200
        /\ req[r].waits = <<100, 200>>

(***************************************************************************)
(* C6: a read request whose first read succeeds and finds no item returns  *)
(* 404 at once: one read, no sleep, body {error: "User not found"} for     *)
(* users and {error: "Asset not found"} for assets and downloads.          *)
(***************************************************************************)
C6_NotFoundIsTerminal ==
    [][\A r \in Req :
         /\ req[r].pc \in {"getUser", "getAsset", "getDownloadUrl_get"}
         /\ req[r].calls = << >>
         /\ req'[r] # req[r]
         /\ req'[r].errs = 0
         /\ Stored(req[r], req[r].event.id) = NoItem
         => /\ req'[r].pc = "done"
            /\ req'[r].resp =
                 [statusCode |-> 404,
                  body |-> [error |-> IF req[r].event.handler = "users"
                                      THEN "User not found" ELSE "Asset not found"]]
            /\ req'[r].calls = <<"Get">>
            /\ req'[r].waits = << >>]_vars

\* A download request for a missing asset was answered 404 after one read.
C6_Witness ==
    \E r \in Req :
        /\ Done(r)
        /\ req[r].event.action = "download"
        /\ req[r].resp.statusCode = 404
        /\ req[r].calls = <<"Get">>
        /\ req[r].errs = 0

(***************************************************************************)
(* C7: a GET /users/{id} whose three reads all fail has slept 100 ms,      *)
(* 200 ms and 400 ms, one sleep after each failed attempt, before the      *)
(* failure is answered.                                                    *)
(***************************************************************************)
C7_BackoffAfterEveryAttempt ==
    \A r \in Req :
        Done(r) /\ IsGetUser(req[r]) /\ req[r].errs = 3
        => req[r].waits = <<100, 200, 400>>

(***************************************************************************)
(* C8: a GET /users/{id} never reads a fourth time; when its three reads   *)
(* all fail it answers 500 {error: "Internal server error"}; the response  *)
(* {error: "Failed to get user"} is never produced.                        *)
(***************************************************************************)
C8_RetryExhaustion ==
    \A r \in Req :
        /\ IsGetUser(req[r]) => Len(req[r].calls) <= 3
        /\ Done(r) /\ IsGetUser(req[r]) /\ req[r].errs = 3
           => /\ Len(req[r].calls) = 3
              /\ req[r].resp = [statusCode |-> 500,
                                body |-> [error |-> "Internal server error"]]
        /\ req[r].resp.body # [error |-> "Failed to get user"]

\* A GET gave up after three failed reads.
C8_Witness ==
    \E r \in Req :
        /\ Done(r)
        /\ IsGetUser(req[r])
        /\ req[r].errs = 3
        /\ req[r].resp.statusCode = 500

(***************************************************************************)
(* C9: a GET /assets/{id} or GET /assets/{id}/download whose first read    *)
(* fails is retried, and is answered by a later read (200 or 404), not     *)
(* 500.                                                                    *)
(***************************************************************************)
C9_AssetReadsRetried ==
    \A r \in Req :
        /\ Done(r)
        /\ req[r].event.handler = "assets"
        /\ req[r].event.method = "GET"
        /\ req[r].errs >= 1
        /\ req[r].calls[1] = "Get"
        /\ "Sign" \notin {req[r].calls[i] : i \in DOMAIN req[r].calls}
        => req[r].resp.statusCode \in {200, 404}

(***************************************************************************)
(* C10 as stated: a successful PUT /users/{id} on an existing record       *)
(* leaves the stored userId as it was, and the stored updatedAt after it   *)
(* is strictly later than the stored updatedAt before it.                  *)
(***************************************************************************)
UpdateSucceeds(r) ==
    /\ req[r].pc = "updateUser_update"
    /\ req'[r].pc = "done"
    /\ req'[r].resp.statusCode = 200
    /\ usersTable[req[r].event.id] # NoItem

C10_UpdatedAtStrictlyAdvances ==
    [][\A r \in Req :
         UpdateSucceeds(r) =>
            LET before == usersTable[req[r].event.id]
                after == usersTable'[req[r].event.id]
            IN  /\ after.userId = before.userId
                /\ "updatedAt" \in DOMAIN before => after.updatedAt > before.updatedAt]_vars

(***************************************************************************)
(* C10 as amended: a successful PUT /users/{id} on an existing record      *)
(* leaves the stored userId as it was, also when the body has the key      *)
(* userId, and the stored updatedAt after it is not earlier than the       *)
(* updatedAt of the record its pre-read returned.                          *)
(***************************************************************************)
C10_UpdateKeepsIdentifier ==
    [][\A r \in Req :
         UpdateSucceeds(r) =>
            LET before == usersTable[req[r].event.id]
                after == usersTable'[req[r].event.id]
                existing == req[r].item
            IN  /\ after.userId = before.userId
                /\ after.userId = req[r].event.id
                /\ "updatedAt" \in DOMAIN after
                /\ "updatedAt" \in DOMAIN existing
                   => after.updatedAt >= existing.updatedAt]_vars

\* Two updates in sequence succeeded, the second with userId in its body.
C10_Witness ==
    \E r1, r2 \in Req :
        /\ req[r1].event.method = "PUT" /\ req[r2].event.method = "PUT"
        /\ Done(r1) /\ Done(r2)
        /\ req[r1].resp.statusCode = 200 /\ req[r2].resp.statusCode = 200
        /\ req[r1].seq = 1 /\ req[r2].seq = 2 /\ req[r2].alone
        /\ "userId" \in DOMAIN req[r2].event.body
        /\ req[r2].resp.body.userId = "u1"
        /\ req[r2].resp.body = usersTable["u1"]

(***************************************************************************)
(* C11: a PUT /users/{id} whose pre-read found the record and none of      *)
(* whose SDK calls was hit by a transient failure is answered 200, and the *)
(* updatedAt it stores and returns is a reading of the clock (a second     *)
(* between the start and now), whatever the body holds, a key updatedAt    *)
(* included.                                                               *)
(***************************************************************************)
IsUpdate(q) == q.event.handler = "users" /\ q.event.method = "PUT" /\ q.event.id # ""

C11_UpdatedAtFromClock ==
    \A r \in Req :
        /\ req[r].pc \in {"done", "thrown"}
        /\ IsUpdate(req[r])
        /\ req[r].errs = 0
        /\ req[r].calls = <<"Get", "Update">>
        => /\ req[r].resp.statusCode = 200
           /\ req[r].resp.body.updatedAt \in 1..now

(***************************************************************************)
(* C12: the pre-read of a PUT /users/{id} that succeeds and finds no       *)
(* record ends the request: it is answered 404 {error: "User not found"},  *)
(* the pre-read is its only SDK call, and neither table changes, so no     *)
(* record is created.                                                      *)
(***************************************************************************)
C12_UpdateOfMissingIs404 ==
    [][\A r \in Req :
         /\ req[r].pc = "updateUser_get"
         /\ req'[r] # req[r]
         /\ req'[r].errs = req[r].errs
         /\ usersTable[req[r].event.id] = NoItem
         => /\ req'[r].pc = "done"
            /\ req'[r].resp = [statusCode |-> 404,
                               body |-> [error |-> "User not found"]]
            /\ req'[r].calls = <<"Get">>
            /\ usersTable' = usersTable
            /\ assetsTable' = assetsTable
            /\ usersTable'[req[r].event.id] = NoItem]_vars

\* An update of a missing user, with nothing else running, was answered 404.
C12_Witness ==
    \E r \in Req :
        /\ Done(r)
        /\ IsUpdate(req[r])
        /\ req[r].alone
        /\ req[r].resp.statusCode = 404
        /\ req[r].calls = <<"Get">>
        /\ usersTable[req[r].event.id] = NoItem

(***************************************************************************)
(* C13: a POST /users whose body has no userId or no email, and a POST     *)
(* /assets whose body has no assetId or no fileName (the key missing or    *)
(* its value empty), is answered 400 by the step that receives it, with no *)
(* SDK call issued and both tables unchanged.                              *)
(***************************************************************************)
\* The body has no value for the key: the key is missing, or holds "".
Lacks(body, key) == key \notin DOMAIN body \/ body[key] = ""

\* e is a create request with a required field missing or empty.
LacksRequired(e) ==
    /\ e.method = "POST"
    /\ e.body # Unparseable
    /\ IF e.handler = "users"
       THEN Lacks(e.body, "userId") \/ Lacks(e.body, "email")
       ELSE Lacks(e.body, "assetId") \/ Lacks(e.body, "fileName")

C13_ValidationBeforeStore ==
    [][\A r \in Req :
         /\ req[r].pc = "idle"
         /\ req'[r].pc # "idle"
         /\ LacksRequired(req'[r].event)
         => /\ req'[r].pc = "done"
            /\ req'[r].resp =
                 [statusCode |-> 400,
                  body |-> [error |-> IF req'[r].event.handler = "users"
                                      THEN "userId and email are required"
                                      ELSE "assetId and fileName are required"]]
            /\ req'[r].calls = << >>
            /\ usersTable' = usersTable
            /\ assetsTable' = assetsTable]_vars

\* Each handler refused a create: an empty email, a missing fileName.
C13_Witness ==
    \E r1, r2 \in Req :
        /\ Done(r1) /\ Done(r2)
        /\ req[r1].event.handler = "users" /\ req[r2].event.handler = "assets"
        /\ LacksRequired(req[r1].event) /\ LacksRequired(req[r2].event)
        /\ "email" \in DOMAIN req[r1].event.body /\ req[r1].event.body.email = ""
        /\ "fileName" \notin DOMAIN req[r2].event.body
        /\ req[r1].resp.statusCode = 400 /\ req[r2].resp.statusCode = 400
        /\ req[r1].calls = << >> /\ req[r2].calls = << >>

(***************************************************************************)
(* C14: a request whose method and path are not one of the seven routes    *)
(* (POST /users, GET, PUT and DELETE /users/{id}, POST /assets,            *)
(* GET /assets/{id}, GET /assets/{id}/download), and whose body is read    *)
(* without an error, is answered 405 by the step that receives it and      *)
(* issues no SDK call.                                                     *)
(***************************************************************************)
\* The seven routes of the interface.
Routed(e) ==
    \/ e.handler = "users" /\ e.method = "POST" /\ e.id = ""
    \/ e.handler = "users" /\ e.method \in {"GET", "PUT", "DELETE"} /\ e.id # ""
    \/ e.handler = "assets" /\ e.method = "POST" /\ e.id = ""
    \/ e.handler = "assets" /\ e.method = "GET" /\ e.id # ""
       /\ e.action \in {"", "download"}

C14_OffRouteIs405 ==
    \A r \in Req :
        /\ req[r].pc # "idle"
        /\ ~Routed(req[r].event)
        /\ req[r].event.body # Unparseable
        => /\ Done(r)
           /\ req[r].resp = [statusCode |-> 405,
                             body |-> [error |-> "Method not allowed"]]
           /\ req[r].calls = << >>

(***************************************************************************)
(* C15: no invocation ends with an exception leaving the handler, whatever *)
(* the event (a body that is not JSON included), and an invocation one of  *)
(* whose SDK calls failed without being retried to success is answered     *)
(* 500 {error: "Internal server error"}.                                   *)
(***************************************************************************)
C15_NoExceptionEscapes ==
    \A r \in Req :
        /\ req[r].pc # "thrown"
        /\ Done(r) /\ req[r].resp.statusCode = 500
           => req[r].resp.body = [error |-> "Internal server error"]

(***************************************************************************)
(* C16: a DELETE /users/{id} whose DeleteCommand does not fail is answered *)
(* 200 with a message whether or not the table holds a record for the      *)
(* identifier; after it the table holds none, and holds what it held       *)
(* before when there was none to delete (a second delete changes           *)
(* nothing).  A GET /users/{id} that arrives after the DELETE returned,    *)
(* with no other request, is answered 404 when its read does not fail.     *)
(***************************************************************************)
IsDelete(q) == q.event.handler = "users" /\ q.event.method = "DELETE" /\ q.event.id # ""

\* r1 then r2, on the same identifier, are all the requests so far.
TwoInSequence(r1, r2) ==
    /\ arrivals = 2
    /\ req[r1].seq = 1 /\ req[r2].seq = 2 /\ req[r2].alone
    /\ Done(r1) /\ Done(r2)
    /\ req[r1].event.id = req[r2].event.id

GetAfterDelete ==
    \A r1, r2 \in Req :
        /\ TwoInSequence(r1, r2)
        /\ IsDelete(req[r1]) /\ req[r1].resp.statusCode = 200
        /\ IsGetUser(req[r2]) /\ req[r2].errs = 0
        => req[r2].resp = [statusCode |-> 404, body |-> [error |-> "User not found"]]

C16_DeleteUnconditional ==
    [][/\ \A r \in Req :
            /\ req[r].pc = "deleteUser"
            /\ req'[r] # req[r]
            /\ req'[r].errs = req[r].errs
            => LET id == req[r].event.id
               IN  /\ req'[r].pc = "done"
                   /\ req'[r].resp.statusCode = 200
                   /\ DOMAIN req'[r].resp.body = {"message"}
                   /\ usersTable'[id] = NoItem
                   /\ usersTable[id] = NoItem => usersTable' = usersTable
                   /\ \A other \in UserIds \ {id} : usersTable'[other] = usersTable[other]
                   /\ assetsTable' = assetsTable
       /\ GetAfterDelete']_vars

\* A record was deleted, and a second delete of it was answered 200 as well.
C16_Witness ==
    \E r1, r2 \in Req :
        /\ TwoInSequence(r1, r2)
        /\ IsDelete(req[r1]) /\ IsDelete(req[r2])
        /\ req[r1].resp.statusCode = 200 /\ req[r2].resp.statusCode = 200
        /\ usersTable[req[r1].event.id] = NoItem

(***************************************************************************)
(* C17: every response carries one of the statuses 200, 201, 400, 404,     *)
(* 405, 500; the body of a response with status 400, 404, 405 or 500 is an *)
(* object whose only field is error, holding a message text; the body of a *)
(* response with status 200 or 201 is not such an object.                  *)
(***************************************************************************)
\* The texts the handlers put under error.
ErrorTexts ==
    { "Internal server error", "Method not allowed", "User not found",
      "Asset not found", "userId and email are required",
      "assetId and fileName are required" }

ErrorShaped(body) == DOMAIN body = {"error"} /\ body.error \in ErrorTexts

C17_ErrorBodies ==
    \A r \in Req :
        Done(r) =>
            /\ req[r].resp.statusCode \in {200, 201, 400, 404, 405, 500}
            /\ req[r].resp.statusCode \in {400, 404, 405, 500}
               <=> ErrorShaped(req[r].resp.body)

\* A request off the routes was answered 405 and one whose SDK call failed 500.
C17_Witness ==
    \E r1, r2 \in Req :
        /\ Done(r1) /\ Done(r2)
        /\ req[r1].resp = [statusCode |-> 405, body |-> [error |-> "Method not allowed"]]
        /\ req[r2].resp = [statusCode |-> 500, body |-> [error |-> "Internal server error"]]
        /\ req[r2].errs = 1

(***************************************************************************)
(* C18: when a create returns 201, the record it returns has               *)
(* ttl = createdAt + 7776000 for a user and ttl = createdAt + 2592000 for  *)
(* an asset, and the table holds that record under its identifier.         *)
(***************************************************************************)
C18_TtlFromCreatedAt ==
    [][\A r \in Req :
         /\ req[r].pc # "done"
         /\ req'[r].pc = "done"
         /\ req'[r].resp.statusCode = 201
         => LET record == Returned(req'[r])
            IN  IF req'[r].event.handler = "users"
                THEN /\ record.ttl = record.createdAt + 7776000
                     /\ usersTable'[record.userId] = record
                ELSE /\ record.ttl = record.createdAt + 2592000
                     /\ assetsTable'[record.assetId] = record]_vars

\* A user and an asset were created, at different seconds.
C18_Witness ==
    \E r1, r2 \in Req :
        /\ Done(r1) /\ Done(r2)
        /\ req[r1].event.handler = "users" /\ req[r2].event.handler = "assets"
        /\ req[r1].resp.statusCode = 201 /\ req[r2].resp.statusCode = 201
        /\ req[r1].resp.body.user.createdAt # req[r2].resp.body.asset.createdAt
        /\ usersTable["u1"] = req[r1].resp.body.user
        /\ assetsTable["a1"] = req[r2].resp.body.asset

(***************************************************************************)
(* C19: when a POST /assets returns 201, its body holds the record and an  *)
(* upload URL for the record's bucket, key and content type, and the table *)
(* holds the record with s3Key = assets/{assetId}/{fileName}, status       *)
(* pending and the content type of the body, or application/octet-stream   *)
(* when the body has none.  When the existence check of a POST /assets     *)
(* finds a record, the request is answered 200 with that record and the    *)
(* table is unchanged.                                                     *)
(***************************************************************************)
IsUpload(q) == q.event.handler = "assets" /\ q.event.method = "POST"

C19_AssetCreate ==
    [][\A r \in Req :
         /\ IsUpload(req[r])
         /\ req[r].pc \notin {"idle", "done"}
         /\ req'[r].pc = "done"
         => LET body == req[r].event.body
                resp == req'[r].resp
                stored == assetsTable'[body.assetId]
            IN  /\ resp.statusCode = 201
                   => /\ DOMAIN resp.body = {"message", "asset", "uploadUrl"}
                      /\ resp.body.asset = stored
                      /\ stored.assetId = body.assetId
                      /\ stored.fileName = body.fileName
                      /\ stored.s3Key = <<"assets", body.assetId, body.fileName>>
                      /\ stored.status = "pending"
                      /\ stored.contentType =
                            IF "contentType" \in DOMAIN body /\ body.contentType # ""
                            THEN body.contentType
                            ELSE "application/octet-stream"
                      /\ resp.body.uploadUrl =
                            [command |-> [op |-> "PutObject",
                                          Bucket |-> stored.s3Bucket,
                                          Key |-> stored.s3Key,
                                          ContentType |-> stored.contentType],
                             expiresIn |-> 3600]
                /\ req[r].pc = "uploadAsset_get"
                   /\ req'[r].errs = req[r].errs
                   /\ assetsTable[body.assetId] # NoItem
                   => /\ resp.statusCode = 200
                      /\ resp.body.asset = assetsTable[body.assetId]
                      /\ assetsTable' = assetsTable]_vars

\* An asset was created with a content type of its own; a second POST for
\* the identifier, with another file name, was answered with that record.
C19_Witness ==
    \E r1, r2 \in Req :
        /\ IsUpload(req[r1]) /\ IsUpload(req[r2])
        /\ Done(r1) /\ Done(r2)
        /\ req[r1].seq = 1 /\ req[r2].seq = 2 /\ req[r2].alone
        /\ req[r1].resp.statusCode = 201 /\ req[r2].resp.statusCode = 200
        /\ req[r1].resp.body.asset.contentType = "image/png"
        /\ req[r2].event.body.fileName = "f.txt"
        /\ req[r2].resp.body.asset = req[r1].resp.body.asset

(***************************************************************************)
(* C20: a GET /assets/{id}/download none of whose calls fails is answered  *)
(* 200 with a download URL exactly when the table holds a record for the   *)
(* identifier; the URL is signed for the s3Bucket and s3Key of the stored  *)
(* record, for one hour; when the table holds no record the request is     *)
(* answered 404 {error: "Asset not found"} and no URL is signed.           *)
(***************************************************************************)
IsDownload(q) ==
    q.event.handler = "assets" /\ q.event.method = "GET" /\ q.event.id # ""
    /\ q.event.action = "download"

C20_DownloadUrl ==
    \A r \in Req :
        Done(r) /\ IsDownload(req[r]) /\ req[r].errs = 0
           => LET stored == assetsTable[req[r].event.id]
                  resp == req[r].resp
              IN  IF stored # NoItem
                  THEN /\ resp.statusCode = 200
                       /\ req[r].calls = <<"Get", "Sign">>
                       /\ resp.body.downloadUrl =
                             [command |-> [op |-> "GetObject",
                                           Bucket |-> stored.s3Bucket,
                                           Key |-> stored.s3Key],
                              expiresIn |-> 3600]
                       /\ resp.body.fileName = stored.fileName
                       /\ resp.body.contentType = stored.contentType
                  ELSE /\ resp = [statusCode |-> 404,
                                  body |-> [error |-> "Asset not found"]]
                       /\ req[r].calls = <<"Get">>

\* A download URL was signed for the key of a stored record.
C20_Witness ==
    \E r \in Req :
        /\ Done(r) /\ IsDownload(req[r]) /\ req[r].errs = 0
        /\ req[r].resp.statusCode = 200
        /\ assetsTable[req[r].event.id].s3Key = <<"assets", "a1", "g.png">>
        /\ req[r].resp.body.downloadUrl.command.Key = <<"assets", "a1", "g.png">>

(***************************************************************************)
(* C21: no step changes an asset record that exists, whatever requests run *)
(* and however they interleave; every stored asset has status pending and  *)
(* the location assets/{assetId}/{fileName} in the assets bucket.          *)
(***************************************************************************)
AssetsAsCreated ==
    \A id \in AssetIds :
        LET stored == assetsTable[id]
        IN  stored # NoItem =>
               /\ stored.assetId = id
               /\ stored.status = "pending"
               /\ stored.s3Bucket = "assets-bucket"
               /\ stored.s3Key = <<"assets", id, stored.fileName>>
               /\ stored.ttl = stored.createdAt + 2592000

C21_AssetsReadOnly ==
    [][/\ \A id \in AssetIds :
            assetsTable[id] # NoItem => assetsTable'[id] = assetsTable[id]
       /\ AssetsAsCreated']_vars

\* Two creates with different file names raced for one identifier; the
\* record is the one the winner stored.
C21_Witness ==
    \E r1, r2 \in Req :
        /\ IsUpload(req[r1]) /\ IsUpload(req[r2])
        /\ IsCreate(req[r1]) /\ IsCreate(req[r2])
        /\ Done(r1) /\ Done(r2)
        /\ req[r1].event.body.fileName # req[r2].event.body.fileName
        /\ req[r1].resp.statusCode = 201
        /\ req[r2].calls = <<"Get", "Put", "Get">>
        /\ assetsTable["a1"] = req[r1].resp.body.asset
        /\ assetsTable["a1"].fileName = req[r1].event.body.fileName

(***************************************************************************)
(* C22: when the existence check of a create succeeds and finds a record,  *)
(* the request is answered 200 with the record as stored, whatever its     *)
(* payload; the check is its only SDK call (no write is attempted) and     *)
(* neither table changes.                                                  *)
(***************************************************************************)
C22_ExistingRecordReturned ==
    [][\A r \in Req :
         /\ req[r].pc \in {"createUser_get", "uploadAsset_get"}
         /\ req'[r] # req[r]
         /\ req'[r].errs = req[r].errs
         /\ Stored(req[r], CreateId(req[r])) # NoItem
         => /\ req'[r].pc = "done"
            /\ req'[r].resp.statusCode = 200
            /\ Returned(req'[r]) = Stored(req[r], CreateId(req[r]))
            /\ req'[r].calls = <<"Get">>
            /\ usersTable' = usersTable
            /\ assetsTable' = assetsTable]_vars

\* A create with another email and a department was answered with the
\* record as the first create stored it.
C22_Witness ==
    \E r1, r2 \in Req :
        /\ IsCreate(req[r1]) /\ IsCreate(req[r2])
        /\ req[r1].event.handler = "users" /\ req[r2].event.handler = "users"
        /\ Done(r1) /\ Done(r2)
        /\ req[r1].resp.statusCode = 201 /\ req[r2].resp.statusCode = 200
        /\ req[r2].calls = <<"Get">>
        /\ req[r2].event.body.email # req[r1].event.body.email
        /\ "department" \in DOMAIN req[r2].event.body
        /\ req[r2].resp.body.user.email = req[r1].event.body.email
        /\ "department" \notin DOMAIN req[r2].resp.body.user
        /\ usersTable["u1"] = req[r2].resp.body.user

PutIfAbsent(table, id, item) ==
    IF table[id] = NoItem
    THEN [status |-> 201, record |-> item, table |-> [table EXCEPT ![id] = item]]
    ELSE [status |-> 200, record |-> table[id], table |-> table]

\* The table of q's handler.
TableOf(q) == IF q.event.handler = "users" THEN usersTable ELSE assetsTable

\* The step of create r at which its answer is settled: the existence
\* check that finds a record, the conditional write that is accepted, or
\* the re-read after a rejected write.
Settles(r) ==
    \/ req[r].pc \in {"createUser_get", "uploadAsset_get"} /\ req'[r].pc = "done"
    \/ req[r].pc \in {"createUser_put", "uploadAsset_put"}
       /\ req'[r].pc \in {"done", "uploadAsset_sign"}
    \/ req[r].pc \in {"createUser_reget", "uploadAsset_reget"} /\ req'[r].pc = "done"

C25_CreateIsPutIfAbsent ==
    [][\A r \in Req :
         CreateStep(r) =>
            LET q == req[r]
                id == CreateId(q)
                outcome == PutIfAbsent(TableOf(q), id, q.item)
                after == IF q.event.handler = "users" THEN usersTable' ELSE assetsTable'
            IN  /\ IF Settles(r)
                   THEN /\ after = outcome.table
                        /\ req'[r].pc = "done"
                           => /\ req'[r].resp.statusCode = outcome.status
                              /\ Returned(req'[r]) = outcome.record
                   ELSE after = TableOf(q)
                /\ q.pc = "uploadAsset_sign"
                   => /\ req'[r].resp.statusCode = 201
                      /\ Returned(req'[r]) = q.item
                      /\ after[id] = q.item
                /\ q.event.handler = "users" => assetsTable' = assetsTable
                /\ q.event.handler = "assets" => usersTable' = usersTable]_vars

\* Two creates with the same payload against a table that held a record
\* from the start: the one with the existence check was answered by its
\* read, the one without by the re-read after its rejected write, both
\* with the record the table held.
C25_Witness ==
    \E r1, r2 \in Req :
        /\ arrivals = 2 /\ Done(r1) /\ Done(r2)
        /\ IsCreate(req[r1]) /\ req[r1].event = req[r2].event
        /\ req[r1].calls = <<"Get">>
        /\ req[r2].calls = <<"Put", "Get">>
        /\ req[r1].resp = req[r2].resp
        /\ req[r1].resp.statusCode = 200
        /\ Returned(req[r1]) = Stored(req[r1], CreateId(req[r1]))

(***************************************************************************)
(* C26: every record in the users table was written by a create: it has    *)
(* userId, email, createdAt and ttl, in every interleaving of updates,     *)
(* deletes and reads; and no accepted update writes to an identifier that  *)
(* has no record.                                                          *)
(***************************************************************************)
C26_UpdateNeverCreates ==
    [][/\ \A id \in UserIds :
            usersTable'[id] # NoItem
            => {"userId", "email", "createdAt", "ttl"} \subseteq DOMAIN usersTable'[id]
       /\ \A r \in Req :
            /\ req[r].pc = "updateUser_update"
            /\ req'[r].pc = "done"
            /\ req'[r].resp.statusCode = 200
            => usersTable[req[r].event.id] # NoItem]_vars

(***************************************************************************)
(* C27: a POST /assets that is answered with a failure status has stored   *)
(* no record: whenever the assets table holds a record, the request whose  *)
(* write stored it has been answered 201 with that record and an upload    *)
(* URL, or has yet to be answered.                                         *)
(***************************************************************************)
C27_StoredAssetHasUploadUrl ==
    \A id \in AssetIds :
        assetsTable[id] # NoItem =>
            \E r \in Req :
                /\ IsUpload(req[r])
                /\ \/ /\ Done(r)
                      /\ req[r].resp.statusCode = 201
                      /\ "uploadUrl" \in DOMAIN req[r].resp.body
                      /\ req[r].resp.body.asset = assetsTable[id]
                   \/ /\ req[r].pc = "uploadAsset_sign"
                      /\ req[r].item = assetsTable[id]

(***************************************************************************)
(* C28: in every state, each record of the users table that has createdAt  *)
(* and ttl satisfies ttl = createdAt + 7776000, after any creates, updates *)
(* and deletes; and no update changes the createdAt or the ttl of a        *)
(* record.                                                                 *)
(***************************************************************************)
C28_TtlInvariant ==
    [][/\ \A id \in UserIds :
            /\ usersTable'[id] # NoItem
            /\ {"createdAt", "ttl"} \subseteq DOMAIN usersTable'[id]
            => usersTable'[id].ttl = usersTable'[id].createdAt + 7776000
       /\ \A r \in Req :
            UpdateSucceeds(r) =>
               LET before == usersTable[req[r].event.id]
                   after == usersTable'[req[r].event.id]
               IN  /\ "createdAt" \in DOMAIN before => after.createdAt = before.createdAt
                   /\ "ttl" \in DOMAIN before => after.ttl = before.ttl]_vars

(***************************************************************************)
(* C29: the download URL of an asset is signed for the bucket and key for  *)
(* which the 201 response of the POST /assets that created the record      *)
(* signed the upload URL, whatever requests ran in between.                *)
(***************************************************************************)
Created(r1, r2) ==
    /\ Done(r1) /\ IsUpload(req[r1]) /\ req[r1].resp.statusCode = 201
    /\ Done(r2) /\ IsDownload(req[r2]) /\ req[r2].resp.statusCode = 200
    /\ req[r1].resp.body.asset.assetId = req[r2].event.id

IsRead(q) == q.event.method = "GET" /\ q.event.id # ""

C30_ReadsLeaveStore ==
    [][\A r \in Req :
          req'[r] # req[r] /\ IsRead(req'[r])
             => usersTable' = usersTable /\ assetsTable' = assetsTable]_vars

\* A download whose signing failed after its read found the record, which
\* the table still holds.
C30_Witness ==
    \E r \in Req :
        /\ Done(r)
        /\ IsDownload(req[r])
        /\ req[r].calls = <<"Get", "Sign">>
        /\ req[r].resp.statusCode = 500
        /\ assetsTable[req[r].event.id] # NoItem

(***************************************************************************)
(* Creates, updates and deletes over two identifiers in each table, from   *)
(* every content the tables can have, over a store that does not fail.     *)
(***************************************************************************)
PairUserIds == {"u1", "u2"}

PairAssetIds == {"a1", "a2"}

PairEvents ==
    { Event("users", "POST", "", "", [userId |-> id, email |-> "a@b.com"]) :
          id \in PairUserIds }
    \cup { Event("users", "PUT", id, "", b) :
               id \in PairUserIds,
               b \in { [department |-> "X"], [userId |-> "u2", department |-> "Y"] } }
    \cup { Event("users", "DELETE", id, "", NoItem) : id \in PairUserIds }
    \cup { Event("assets", "POST", "", "", [assetId |-> id, fileName |-> "f.txt"]) :
               id \in PairAssetIds }

InitPair ==
    /\ usersTable \in
         [PairUserIds -> {NoItem} \cup {UserItem([userId |-> id, email |-> "c@d.com"], 1) :
                                           id \in PairUserIds}]
    /\ \A id \in PairUserIds : usersTable[id] # NoItem => usersTable[id].userId = id
    /\ assetsTable \in
         [PairAssetIds -> {NoItem} \cup {AssetItem([assetId |-> id, fileName |-> "g.png"], 1) :
                                            id \in PairAssetIds}]
    /\ \A id \in PairAssetIds : assetsTable[id] # NoItem => assetsTable[id].assetId = id
    /\ now = 1
    /\ req = [r \in Req |-> Idle]
    /\ faults = 0
    /\ arrivals = 0
    /\ limit = [arrivals |-> MaxArrivals, faults |-> 0]

NextPair ==
    \/ \E r \in Req, e \in PairEvents : usersHandler(r, e)
    \/ \E r \in Req : createUser_get(r)
    \/ \E r \in Req : createUser_put(r)
    \/ \E r \in Req : createUser_reget(r)
    \/ \E r \in Req : updateUser_get(r)
    \/ \E r \in Req : updateUser_update(r)
    \/ \E r \in Req : deleteUser(r)
    \/ \E r \in Req, e \in PairEvents : assetsHandler(r, e)
    \/ \E r \in Req : uploadAsset_get(r)
    \/ \E r \in Req : uploadAsset_put(r)
    \/ \E r \in Req : uploadAsset_sign(r)
    \/ \E r \in Req : uploadAsset_reget(r)

SpecPair == InitPair /\ [][NextPair]_vars

(***************************************************************************)
(* C31: a step of a create, an update or a delete for one identifier       *)
(* leaves the record, or the absence of a record, of every other           *)
(* identifier as it was; a step of a users request leaves the assets table *)
(* as it was and a step of an assets request the users table; and a step   *)
(* of one invocation changes nothing of any other invocation.              *)
(***************************************************************************)
\* The identifier a request is for: the key of the body for a create, the
\* path parameter for every other request.
Target(q) ==
    IF q.event.method = "POST"
    THEN IF q.event.handler = "users" THEN q.event.body.userId
         ELSE q.event.body.assetId
    ELSE q.event.id

Writes(q) == q.event.method \in {"POST", "PUT", "DELETE"}

C31_IdentifiersIsolated ==
    [][\A r \in Req :
          req'[r] # req[r] /\ Writes(req'[r])
             => LET q == req'[r]
                IN  /\ \A p \in Req \ {r} : req'[p] = req[p]
                    /\ IF q.event.handler = "users"
                       THEN /\ assetsTable' = assetsTable
                            /\ \A B \in DOMAIN usersTable \ {Target(q)} :
                                   usersTable'[B] = usersTable[B]
                       ELSE /\ usersTable' = usersTable
                            /\ \A B \in DOMAIN assetsTable \ {Target(q)} :
                                   assetsTable'[B] = assetsTable[B]]_vars

\* A delete of u1 and an update of u1 whose body names u2 have both been
\* answered 200, while both tables hold the records of u2 and a2 as
\* before.
C31_Witness ==
    \E r1, r2 \in Req :
        /\ Done(r1) /\ req[r1].event.method = "DELETE" /\ req[r1].event.id = "u1"
        /\ req[r1].resp.statusCode = 200
        /\ Done(r2) /\ req[r2].event.method = "PUT" /\ req[r2].event.id = "u1"
        /\ "userId" \in DOMAIN req[r2].event.body
        /\ req[r2].resp.statusCode = 200
        /\ usersTable["u2"] = UserItem([userId |-> "u2", email |-> "c@d.com"], 1)
        /\ assetsTable["a2"] # NoItem

(***************************************************************************)
(* Every awaited call returns: an invocation that can take its next step   *)
(* takes it.                                                               *)
(***************************************************************************)
Returns(r) ==
    \/ getUser(r)
    \/ createUser_get(r)
    \/ createUser_put(r)
    \/ createUser_reget(r)
    \/ updateUser_get(r)
    \/ updateUser_update(r)
    \/ deleteUser(r)
    \/ uploadAsset_get(r)
    \/ uploadAsset_put(r)
    \/ uploadAsset_sign(r)
    \/ uploadAsset_reget(r)
    \/ getAsset(r)
    \/ getDownloadUrl_get(r)
    \/ getDownloadUrl_sign(r)

FairGateway == SpecGateway /\ \A r \in Req : WF_vars(Returns(r))

(***************************************************************************)
(* C32: every invocation ends with a response, each of its store calls     *)
(* returning, after at most 3 reads for GET /users/{id}, at most 3 store   *)
(* calls for a create, at most 2 for an update, and exactly 1 for a        *)
(* delete, a GET /assets/{id} and a GET /assets/{id}/download.             *)
(***************************************************************************)
\* The commands sent to the tables; signing a URL sends none.
StoreCalls(q) == Cardinality({i \in DOMAIN q.calls : q.calls[i] # "Sign"})

CallBound(q) ==
    CASE q.event.method = "PUT" -> 2
      [] q.event.method = "DELETE" -> 1
      [] q.event.method = "GET" /\ q.event.handler = "assets" -> 1
      [] OTHER -> 3

SingleCall(q) ==
    /\ q.event.id # ""
    /\ \/ q.event.handler = "users" /\ q.event.method = "DELETE"
       \/ q.event.handler = "assets" /\ q.event.method = "GET"

C32_BoundedTermination ==
    /\ [](\A r \in Req :
             /\ StoreCalls(req[r]) <= CallBound(req[r])
             /\ Done(r) /\ SingleCall(req[r]) => StoreCalls(req[r]) = 1)
    /\ \A r \in Req : (req[r].pc # "idle") ~> Done(r)

(***************************************************************************)
(* C33: a create, an update or a delete sends each of its calls once, in   *)
(* order: a call that the store fails is not sent again and nothing is     *)
(* waited for; the request is answered 500 Internal server error after     *)
(* that one failed call.  Only a conditional write the store rejects is    *)
(* followed by another call, the re-read.                                  *)
(***************************************************************************)
Prefix(s, t) == Len(s) <= Len(t) /\ \A i \in 1..Len(s) : s[i] = t[i]

\* The calls of a request in their order, to the end of its longest paths.
CallOrders(q) ==
    CASE q.event.method = "PUT" -> { <<"Get", "Update">> }
      [] q.event.method = "DELETE" -> { <<"Delete">> }
      [] q.event.handler = "users" -> { <<"Get", "Put", "Get">> }
      [] OTHER -> { <<"Get", "Put", "Sign">>, <<"Get", "Put", "Get">> }

C33_WritesNotRetried ==
    \A r \in Req :
        Writes(req[r])
           => /\ \E t \in CallOrders(req[r]) : Prefix(req[r].calls, t)
              /\ req[r].waits = << >>
              /\ req[r].errs > 0
                    => /\ req[r].errs = 1
                       /\ Done(r)
                       /\ req[r].resp = [statusCode |-> 500,
                                         body |-> [error |-> "Internal server error"]]

\* The store failed the conditional write of a create: the create was
\* answered 500 after it and the table holds no record.
C33_Witness ==
    \E r \in Req :
        /\ Done(r)
        /\ req[r].event.handler = "users" /\ req[r].event.method = "POST"
        /\ req[r].calls = <<"Get", "Put">>
        /\ req[r].errs = 1
        /\ req[r].resp.statusCode = 500
        /\ usersTable["u1"] = NoItem

(***************************************************************************)
(* Creates of a user whose payloads carry the optional fields, empty       *)
(* values and fields the record has no place for.                          *)
(***************************************************************************)
ProfileBodies ==
    { [userId |-> "u1", email |-> "a@b.com"],
      [userId |-> "u1", email |-> "a@b.com", name |-> "Jane", department |-> ""],
      [userId |-> "u1", email |-> "c@d.com", name |-> "", department |-> "Sales",
       role |-> "admin", updatedAt |-> 5],
      [userId |-> "u1", email |-> "c@d.com", name |-> "Joe", department |-> "Sales",
       createdAt |-> 0, ttl |-> 0] }

ProfileEvents == { Event("users", "POST", "", "", b) : b \in ProfileBodies }

InitProfile ==
    /\ usersTable = [id \in UserIds |-> NoItem]
    /\ assetsTable = [id \in AssetIds |-> NoItem]
    /\ now = 1
    /\ req = [r \in Req |-> Idle]
    /\ faults = 0
    /\ arrivals = 0
    /\ limit = [arrivals |-> MaxArrivals, faults |-> MaxFaults]

NextProfile ==
    \/ \E r \in Req, e \in ProfileEvents : usersHandler(r, e)
    \/ \E r \in Req : createUser_get(r)
    \/ \E r \in Req : createUser_put(r)
    \/ \E r \in Req : createUser_reget(r)

SpecProfile == InitProfile /\ [][NextProfile]_vars

(***************************************************************************)
(* C34: the record a create stores has the fields userId, email, createdAt *)
(* and ttl, the field name when the payload has a non-empty name and the   *)
(* field department when the payload has a non-empty department, with the  *)
(* payload's values, and no other field: no updatedAt, and no other field  *)
(* of the payload.                                                         *)
(***************************************************************************)
Supplied(body) == {k \in {"name", "department"} : k \in DOMAIN body /\ body[k] # ""}

C34_CreatedRecordFields ==
    [][\A r \in Req :
          req[r].pc = "createUser_put" /\ req'[r] # req[r] /\ usersTable' # usersTable
             => LET body == req[r].event.body
                    record == usersTable'[body.userId]
                IN  /\ DOMAIN record = {"userId", "email", "createdAt", "ttl"}
                                          \cup Supplied(body)
                    /\ \A k \in {"userId", "email"} \cup Supplied(body) :
                           record[k] = body[k]
                    /\ record.createdAt \in 1..now
                    /\ record.ttl = record.createdAt + 7776000
                    /\ req'[r].resp = [statusCode |-> 201,
                                       body |-> [message |-> "User created",
                                                 user |-> record]]]_vars

\* A create whose payload had an empty name, a department, a role and an
\* updatedAt stored a record with the department and without the others.
C34_Witness ==
    \E r \in Req :
        /\ Done(r)
        /\ req[r].resp.statusCode = 201
        /\ {"name", "role", "updatedAt"} \subseteq DOMAIN req[r].event.body
        /\ DOMAIN usersTable["u1"] = {"userId", "email", "createdAt", "ttl", "department"}
        /\ usersTable["u1"] = req[r].resp.body.user

====
